---- MODULE Spec2Model ----
(***************************************************************************)
(* A model of web_scraper_api.py: the per-URL pipeline                     *)
(* fetch_html -> scrape_url, the two endpoints scrape_single and           *)
(* scrape_batch, the global exception handler, and the pure function       *)
(* clean_text.                                                             *)
(*                                                                         *)
(* Text is a sequence of one-character strings.  An f-string message is a  *)
(* sequence of string tokens (its literal parts and its substituted        *)
(* values), so that two messages are equal exactly when they are built     *)
(* from the same parts.                                                    *)
(***************************************************************************)
EXTENDS Integers, Sequences, FiniteSets, TLC

\* ------------------------------------------------------------------------
\* Bounds
\* ------------------------------------------------------------------------
MaxUrls == 2
MaxRequests == 2
MaxPieces == 4
MaxPairUrls == 1
MaxHandlers == 2
MaxConcUrls == 2

\* ------------------------------------------------------------------------
\* Text helpers (Python str operations used by the source)
\* ------------------------------------------------------------------------
NL == "\n"

\* the characters str.strip() removes
Whitespace == {" ", "\t", "\n", "\r"}

MinOf(S) == CHOOSE x \in S : \A y \in S : x <= y

MaxOf(S) == CHOOSE x \in S : \A y \in S : y <= x

\* str.strip()
strip(s) ==
    LET keep == {i \in 1..Len(s) : s[i] \notin Whitespace}
    IN  IF keep = {} THEN <<>> ELSE SubSeq(s, MinOf(keep), MaxOf(keep))

\* str.split("\n"): the pieces between consecutive line breaks (always at
\* least one piece, possibly empty)
RECURSIVE split(_)
split(s) ==
    LET brk == {i \in 1..Len(s) : s[i] = NL}
    IN  IF brk = {} THEN <<s>>
        ELSE LET k == MinOf(brk)
             IN  <<SubSeq(s, 1, k - 1)>> \o split(SubSeq(s, k + 1, Len(s)))

\* a variant of collapse that deletes each run of two or more line breaks
RECURSIVE collapse_drop(_)
collapse_drop(s) ==
    IF s = <<>> THEN <<>>
    ELSE IF Len(s) >= 2 /\ s[1] = NL /\ s[2] = NL
         THEN LET rest == {i \in 1..Len(s) : s[i] # NL}
              IN  IF rest = {} THEN <<>>
                  ELSE collapse_drop(SubSeq(s, MinOf(rest), Len(s)))
    ELSE <<Head(s)>> \o collapse_drop(Tail(s))

\* re.sub(r'\n{2,}', '\n', text): each maximal run of two or more line
\* breaks is replaced by one line break
RECURSIVE collapse(_)
collapse(s) ==
    IF s = <<>> THEN <<>>
    ELSE IF Len(s) >= 2 /\ s[1] = NL /\ s[2] = NL THEN collapse(Tail(s))
    ELSE <<Head(s)>> \o collapse(Tail(s))

\* Python's `bad in line`
contains(line, bad) ==
    \E i \in 1..(Len(line) - Len(bad) + 1) : SubSeq(line, i, i + Len(bad) - 1) = bad

kwSignIn == <<"S", "i", "g", "n", " ", "I", "n">>

kwSignOut == <<"S", "i", "g", "n", " ", "O", "u", "t">>

kwAllArticles == <<"A", "l", "l", " ", "A", "r", "t", "i", "c", "l", "e", "s">>

kwHome == <<"H", "o", "m", "e">>

blacklist_keywords == {kwSignIn, kwSignOut, kwAllArticles, kwHome}

\* a variant of clean_text that trims the lines and keeps the blank ones
clean_text_keep_blank(text) ==
    LET pieces == split(collapse(text))
        lines == [i \in 1..Len(pieces) |-> strip(pieces[i])]
        Clean(line) == \A bad \in blacklist_keywords : ~contains(line, bad)
    IN  SelectSeq(lines, Clean)

\* clean_text(text)
clean_text(text) ==
    LET collapsed == collapse(text)
        NonBlank(line) == strip(line) # <<>>
        kept == SelectSeq(split(collapsed), NonBlank)
        lines == [i \in 1..Len(kept) |-> strip(kept[i])]
        Clean(line) == \A bad \in blacklist_keywords : ~contains(line, bad)
    IN  SelectSeq(lines, Clean)

\* ------------------------------------------------------------------------
\* Inputs of clean_text: concatenations of at most MaxPieces pieces, and a
\* few longer fixed texts
\* ------------------------------------------------------------------------
Pieces ==
    { <<NL>>, <<" ">>, <<"A">>, kwHome, <<"w", "o", "r", "k">>,
      <<"S", "i", "g", "n">>, <<"I", "n">> }

RECURSIVE Flatten(_)
Flatten(ps) == IF ps = <<>> THEN <<>> ELSE Head(ps) \o Flatten(Tail(ps))

PieceTexts == { Flatten(ps) : ps \in UNION { [1..n -> Pieces] : n \in 0..MaxPieces } }

\* "A\n\n\nB\nSign In\nC"
SpecExample == <<"A", NL, NL, NL, "B", NL>> \o kwSignIn \o <<NL, "C">>

FixedTexts ==
    { SpecExample,
      <<" ">> \o kwSignOut \o <<NL, "h", "o", "m", "e", NL, "\t", "x", " ", "y", "\r", NL>>,
      <<"x", " ">> \o kwAllArticles \o <<"!", NL, NL, "A", "l", "l", NL, "s", "i", "g", "n", " ", "i", "n">> }

CleanInputs == PieceTexts \cup FixedTexts

\* ------------------------------------------------------------------------
\* Documents.  The upstream's body is given by the tree html.parser builds
\* from it: a node is an element (tag, attributes, children) or a text
\* node (tag "#text").  A document the parser rejects is marked rejected.
\* ------------------------------------------------------------------------
Txt(s) == [tag |-> "#text", text |-> s, name |-> "", hasContent |-> FALSE,
           content |-> <<>>, kids |-> <<>>]

El(t, ks) == [tag |-> t, text |-> <<>>, name |-> "", hasContent |-> FALSE,
              content |-> <<>>, kids |-> ks]

Meta(n, c) == [tag |-> "meta", text |-> <<>>, name |-> n, hasContent |-> TRUE,
               content |-> c, kids |-> <<>>]

\* Python's None where a tag is expected
NoTag == [tag |-> "#none", text |-> <<>>, name |-> "", hasContent |-> FALSE,
          content |-> <<>>, kids |-> <<>>]

tBody == <<"B", "o", "d", "y">>

DocFull ==
    <<El("html", <<
        El("head", <<El("title", <<Txt(<<" ", "P", "g", " ">>)>>),
                     Meta("description", <<"d">>),
                     Meta("keywords", <<"k">>)>>),
        El("body", <<El("nav", <<Txt(kwHome)>>),
                     El("main", <<El("h1", <<Txt(<<"T">>)>>),
                                  El("p", <<Txt(tBody)>>)>>),
                     El("h2", <<Txt(<<"F">>)>>)>>)>>)>>

\* <main><h1>T</h1><p>Body</p></main>
DocMainOnly ==
    <<El("main", <<El("h1", <<Txt(<<"T">>)>>), El("p", <<Txt(tBody)>>)>>)>>

DocArticle ==
    <<El("html", <<
        El("head", <<El("title", <<>>), Meta("description", <<>>)>>),
        El("body", <<El("h2", <<Txt(<<" ", "S">>), El("b", <<Txt(<<"u", " ">>)>>)>>),
                     El("article", <<El("p", <<Txt(kwSignIn)>>),
                                     Txt(<<NL, " ", NL>>),
                                     El("p", <<Txt(<<" ", "A", NL, NL, "B", " ">>)>>)>>),
                     El("h1", <<Txt(<<"U">>)>>),
                     Txt(<<"t">>)>>)>>)>>

\* a bare text with no element at all
DocBare == <<Txt(<<"x">>)>>

\* an empty <main> before an <article> with text
DocEmptyMain ==
    <<El("body", <<El("main", <<>>), El("article", <<El("p", <<Txt(<<"R">>)>>)>>)>>)>>

\* a <body> with headings and text but no <main> and no <article>
DocBodyOnly ==
    <<El("html", <<
        El("body", <<El("h2", <<Txt(<<"x">>)>>),
                     Txt(<<" ", "t", " ">>),
                     El("h1", <<Txt(<<"y">>)>>),
                     El("h2", <<Txt(<<"z">>)>>)>>)>>)>>

\* an <article> that comes before the <main>
DocArticleMain ==
    <<El("body", <<El("article", <<Txt(<<"R">>)>>), El("main", <<Txt(<<"M">>)>>)>>)>>

Docs ==
    <<[rejected |-> FALSE, nodes |-> DocFull],
      [rejected |-> FALSE, nodes |-> DocMainOnly],
      [rejected |-> FALSE, nodes |-> DocArticle],
      [rejected |-> FALSE, nodes |-> DocBare],
      [rejected |-> FALSE, nodes |-> DocEmptyMain],
      [rejected |-> TRUE, nodes |-> <<>>],
      [rejected |-> FALSE, nodes |-> DocBodyOnly],
      [rejected |-> FALSE, nodes |-> DocArticleMain]>>

DocIds == 1..Len(Docs)

\* ------------------------------------------------------------------------
\* BeautifulSoup operations used by scrape_url
\* ------------------------------------------------------------------------
\* all nodes below a list of siblings, in document order
RECURSIVE descendants(_)
descendants(nodes) ==
    IF nodes = <<>> THEN <<>>
    ELSE <<Head(nodes)>> \o descendants(Head(nodes).kids) \o descendants(Tail(nodes))

\* a variant of find_all that lists every <h1> before the other matches
find_all_grouped(nodes, tags) ==
    LET First(n) == n.tag = "h1" /\ "h1" \in tags
        Others(n) == n.tag \in (tags \ {"h1"})
    IN  SelectSeq(descendants(nodes), First) \o SelectSeq(descendants(nodes), Others)

\* soup.find_all(tags)
find_all(nodes, tags) ==
    LET Match(n) == n.tag \in tags IN SelectSeq(descendants(nodes), Match)

\* soup.find(tag); soup.title and soup.body are find("title"), find("body")
find(nodes, t) ==
    LET found == find_all(nodes, {t})
    IN  IF found = <<>> THEN NoTag ELSE found[1]

\* soup.find("meta", attrs={"name": n})
find_meta(nodes, n) ==
    LET Match(m) == m.name = n
        found == SelectSeq(find_all(nodes, {"meta"}), Match)
    IN  IF found = <<>> THEN NoTag ELSE found[1]

\* Tag.string: the single text child, looked up through single children;
\* None otherwise
RECURSIVE tag_string(_)
tag_string(node) ==
    IF Len(node.kids) # 1 THEN [some |-> FALSE, s |-> <<>>]
    ELSE IF node.kids[1].tag = "#text" THEN [some |-> TRUE, s |-> node.kids[1].text]
    ELSE tag_string(node.kids[1])

\* separator.join(parts)
RECURSIVE join(_, _)
join(parts, sep) ==
    IF parts = <<>> THEN <<>>
    ELSE IF Len(parts) = 1 THEN parts[1]
    ELSE parts[1] \o sep \o join(Tail(parts), sep)

\* Tag.get_text(separator=sep, strip=True): the stripped, non-empty text
\* nodes below the tag, joined by sep
get_text(node, sep) ==
    LET IsText(n) == n.tag = "#text" /\ strip(n.text) # <<>>
        strs == SelectSeq(descendants(node.kids), IsText)
    IN  join([i \in 1..Len(strs) |-> strip(strs[i].text)], sep)

\* ------------------------------------------------------------------------
\* Values of the pipeline
\* ------------------------------------------------------------------------
\* the hosts of the validated HttpUrl objects a request may carry
UrlObjs == {"a", "b"}

\* str(url) of an HttpUrl
Str(u) == <<"http://", u, "/">>

\* what the upstream does for one GET: no answer within the timeout, a
\* transport fault, a response with a status (and, for 200, the document
\* its body parses to), or a 200 response whose body cannot be read
Statuses == {200, 404, 503}

Upstream ==
    {[kind |-> "timeout", status |-> 0, doc |-> 0],
     [kind |-> "fault", status |-> 0, doc |-> 0],
     [kind |-> "bodyfault", status |-> 200, doc |-> 0]}
    \cup {[kind |-> "response", status |-> st, doc |-> 0] : st \in Statuses \ {200}}
    \cup {[kind |-> "response", status |-> 200, doc |-> d] : d \in DocIds}

NoUpstream == [kind |-> "none", status |-> 0, doc |-> 0]

\* exceptions: kind, and for an HTTPException its status_code and detail;
\* for the others detail holds the message str(e) gives
NoExc == [kind |-> "none", status_code |-> 0, detail |-> <<>>]

HTTPException(code, detail) ==
    [kind |-> "HTTPException", status_code |-> code, detail |-> detail]

TimeoutError == [kind |-> "TimeoutError", status_code |-> 0, detail |-> <<>>]

ClientError == [kind |-> "ClientError", status_code |-> 0, detail |-> <<"connection failed">>]

ParserError == [kind |-> "ParserError", status_code |-> 0, detail |-> <<"markup rejected">>]

\* str(e): an HTTPException prints as "<status_code>: <detail>"
str_exc(e) ==
    IF e.kind = "HTTPException" THEN <<ToString(e.status_code), ": ">> \o e.detail
    ELSE e.detail

\* the outcome of a call: a returned value or a raised exception
Return(v) == [raised |-> FALSE, value |-> v, exc |-> NoExc]

NoMetadata == [title |-> <<>>, meta_description |-> <<>>, meta_keywords |-> <<>>,
               headers |-> <<>>]

NoRecord == [url |-> <<>>, metadata |-> NoMetadata, content |-> <<>>]

NoOutcome == [raised |-> FALSE, value |-> NoRecord, exc |-> NoExc]

NoFetch == [raised |-> FALSE, value |-> 0, exc |-> NoExc]

\* ------------------------------------------------------------------------
\* fetch_html
\* ------------------------------------------------------------------------
\* the body of the try block of fetch_html
fetch_try(url, up) ==
    IF up.kind = "timeout" THEN [raised |-> TRUE, value |-> 0, exc |-> TimeoutError]
    ELSE IF up.kind = "fault" THEN [raised |-> TRUE, value |-> 0, exc |-> ClientError]
    ELSE IF up.status # 200
         THEN [raised |-> TRUE, value |-> 0,
               exc |-> HTTPException(up.status, <<"Failed to fetch ">> \o url)]
    ELSE IF up.kind = "bodyfault" THEN [raised |-> TRUE, value |-> 0, exc |-> ClientError]
    ELSE Return(up.doc)

\* fetch_html: the try block under its two except clauses, in order
fetch_html(url, up) ==
    LET r == fetch_try(url, up)
    IN  IF ~r.raised THEN r
        ELSE IF r.exc.kind = "TimeoutError"
             THEN [raised |-> TRUE, value |-> 0,
                   exc |-> HTTPException(504, <<"Timeout while fetching ">> \o url)]
        ELSE [raised |-> TRUE, value |-> 0,
              exc |-> HTTPException(500, <<"Error fetching ">> \o url \o <<": ">>
                                         \o str_exc(r.exc))]

\* ------------------------------------------------------------------------
\* scrape_url
\* ------------------------------------------------------------------------
\* a variant of main_content in which an element without children counts
\* as absent
main_content_nonempty(nodes) ==
    IF find(nodes, "main").kids # <<>> THEN find(nodes, "main")
    ELSE IF find(nodes, "article").kids # <<>> THEN find(nodes, "article")
    ELSE IF find(nodes, "body").kids # <<>> THEN find(nodes, "body")
    ELSE NoTag

\* soup.find("main") or soup.find("article") or soup.body: a Tag is true
\* whatever its contents, None is false
main_content(nodes) ==
    IF find(nodes, "main") # NoTag THEN find(nodes, "main")
    ELSE IF find(nodes, "article") # NoTag THEN find(nodes, "article")
    ELSE find(nodes, "body")

\* the extraction of scrape_url on a parsed document
extract(url, nodes) ==
    LET title_tag == find(nodes, "title")
        ts == tag_string(title_tag)
        title == IF title_tag # NoTag /\ ts.some /\ ts.s # <<>> THEN strip(ts.s) ELSE <<>>
        desc_tag == find_meta(nodes, "description")
        meta_description ==
            IF desc_tag # NoTag /\ desc_tag.hasContent /\ desc_tag.content # <<>>
            THEN desc_tag.content ELSE <<>>
        keywords_tag == find_meta(nodes, "keywords")
        meta_keywords ==
            IF keywords_tag # NoTag /\ keywords_tag.hasContent /\ keywords_tag.content # <<>>
            THEN keywords_tag.content ELSE <<>>
        hs == find_all(nodes, {"h1", "h2"})
        headers == [i \in 1..Len(hs) |-> get_text(hs[i], <<>>)]
        content_text ==
            IF main_content(nodes) # NoTag THEN get_text(main_content(nodes), <<NL>>)
            ELSE <<>>
    IN  [url |-> url,
         metadata |-> [title |-> title, meta_description |-> meta_description,
                       meta_keywords |-> meta_keywords, headers |-> headers],
         content |-> content_text]

\* the body of the try block of scrape_url, given what fetch_html did
scrape_try(url, f) ==
    IF f.raised THEN [raised |-> TRUE, value |-> NoRecord, exc |-> f.exc]
    ELSE IF Docs[f.value].rejected
         THEN [raised |-> TRUE, value |-> NoRecord, exc |-> ParserError]
    ELSE Return(extract(url, Docs[f.value].nodes))

\* scrape_url: the try block under its except clause
scrape_url(url, f) ==
    LET r == scrape_try(url, f)
    IN  IF ~r.raised THEN r
        ELSE [raised |-> TRUE, value |-> NoRecord,
              exc |-> HTTPException(500, <<"Error parsing HTML for ">> \o url \o <<": ">>
                                         \o str_exc(r.exc))]

\* ------------------------------------------------------------------------
\* The endpoints
\* ------------------------------------------------------------------------
\* a variant of task_urls in which every coroutine is bound to the last url
task_urls_last(U) == [i \in 1..Len(U) |-> Str(U[Len(U)])]

\* a variant of task_urls that creates one coroutine per distinct url
RECURSIVE task_urls_dedup(_)
task_urls_dedup(U) ==
    IF U = <<>> THEN <<>>
    ELSE LET front == SubSeq(U, 1, Len(U) - 1)
             seen == \E k \in 1..Len(front) : front[k] = U[Len(U)]
         IN  IF seen THEN task_urls_dedup(front)
             ELSE Append(task_urls_dedup(front), Str(U[Len(U)]))

\* the coroutines scrape_batch creates: one per element of request.urls
task_urls(U) == [i \in 1..Len(U) |-> Str(U[i])]

\* a variant of gather that yields the outcomes in completion order
gather_as_completed(rs, ord) ==
    [raised |-> FALSE, value |-> [k \in 1..Len(ord) |-> rs[ord[k]]], exc |-> NoExc]

\* a variant of gather without return_exceptions: the first exception of a
\* coroutine is raised to the caller
gather_fail_fast(rs, ord) ==
    LET bad == {k \in 1..Len(ord) : rs[ord[k]].raised}
    IN  IF bad = {} THEN [raised |-> FALSE, value |-> rs, exc |-> NoExc]
        ELSE [raised |-> TRUE, value |-> <<>>, exc |-> rs[ord[MinOf(bad)]].exc]

\* asyncio.gather(*tasks, return_exceptions=True): the outcomes in the
\* order of the tasks, exceptions as values; ord is the completion order
gather(rs, ord) == [raised |-> FALSE, value |-> rs, exc |-> NoExc]

\* a variant of slot whose failure element also carries empty result fields
slot_both(u, r) ==
    IF r.raised
    THEN [url |-> Str(u), error |-> str_exc(r.exc), metadata |-> NoMetadata,
          content |-> <<>>]
    ELSE r.value

\* a variant of gather_done that resumes as soon as one coroutine finished
gather_first_done(pcs) ==
    pcs = <<>> \/ \E i \in 1..Len(pcs) : pcs[i] \in {"done", "failed"}

\* when the await of gather is over: every coroutine has returned or raised
gather_done(pcs) == \A i \in 1..Len(pcs) : pcs[i] \in {"done", "failed"}

\* the element scrape_batch appends for (url, result)
slot(u, r) ==
    IF r.raised THEN [url |-> Str(u), error |-> str_exc(r.exc)]
    ELSE r.value

\* zip(request.urls, results) through the loop of scrape_batch
batch_output(U, rs) ==
    LET n == IF Len(U) < Len(rs) THEN Len(U) ELSE Len(rs)
    IN  [i \in 1..n |-> slot(U[i], rs[i])]

NoResponse == [status |-> 0, body |-> <<>>]

\* a handler that has not been invoked
NoHandler == [state |-> "none", ep |-> "none", sess |-> 0, tpc |-> <<>>, on |-> <<>>,
              late |-> <<>>]

NoSeen == [req |-> 0, endpoint |-> "none", n |-> 0, url |-> <<>>, up |-> NoUpstream,
           status |-> 0, out |-> NoRecord]

VARIABLES
    text, lines, cpc,   \* clean_text: its argument, its return value, called or not
    relines,            \* clean_text: the return value of the call on its own output
    reqNo,              \* number of requests received so far
    endpoint,           \* "none", "single" or "batch": the request being handled
    urls,               \* request.url / request.urls of that request
    session,            \* its aiohttp.ClientSession: "none", "open", "closed"
    tasks,              \* the url string each scrape_url coroutine was created with
    pc,                 \* where each coroutine is
    upstream,           \* what the upstream did for each coroutine's GET
    fetched,            \* what fetch_html returned or raised in each coroutine
    result,             \* what each scrape_url coroutine returned or raised
    gets,               \* number of session.get calls of each coroutine
    stages,             \* the pipeline stages each coroutine went through
    order,              \* the coroutines in the order they finished
    responded,          \* whether the response has been sent
    response,           \* the response of the request
    seen,               \* what a client noted of one answered url, for comparison
    csess,              \* the ClientSession objects created so far: "open" or "closed"
    handlers            \* the request handlers running side by side

cvars == <<text, lines, cpc, relines>>

rvars == <<reqNo, endpoint, urls, session, tasks, pc, upstream, fetched, result, gets,
           stages, order, responded, response>>

hvars == <<seen>>

vars == <<text, lines, cpc, relines, reqNo, endpoint, urls, session, tasks, pc, upstream, fetched,
          result, gets, stages, order, responded, response, seen, csess, handlers>>

kvars == <<csess, handlers>>

\* a variant of respond that keeps a count of the requests across requests
\* and refuses every request after the first
respond_rate_limited(o) ==
    IF reqNo > 1 THEN [status |-> 429, body |-> [error |-> <<"Too Many Requests">>]]
    ELSE IF ~o.raised THEN [status |-> 200, body |-> o.value]
    ELSE IF o.exc.kind = "HTTPException"
         THEN [status |-> o.exc.status_code, body |-> [error |-> o.exc.detail]]
    ELSE [status |-> 500, body |-> [error |-> <<"Internal Server Error">>]]

\* a variant of respond that answers 200 also when the endpoint raised
respond_always_ok(o) ==
    IF ~o.raised THEN [status |-> 200, body |-> o.value]
    ELSE [status |-> 200, body |-> [error |-> o.exc.detail]]

\* the response of an endpoint: its return value with status 200, or
\* http_exception_handler's rendering of the HTTPException it raised
\* (any other exception is the framework's plain 500)
respond(o) ==
    IF ~o.raised THEN [status |-> 200, body |-> o.value]
    ELSE IF o.exc.kind = "HTTPException"
         THEN [status |-> o.exc.status_code, body |-> [error |-> o.exc.detail]]
    ELSE [status |-> 500, body |-> [error |-> <<"Internal Server Error">>]]

Terminal == {"done", "failed"}

Idle ==
    /\ reqNo = 0
    /\ endpoint = "none"
    /\ urls = <<>>
    /\ session = "none"
    /\ tasks = <<>>
    /\ pc = <<>>
    /\ upstream = <<>>
    /\ fetched = <<>>
    /\ result = <<>>
    /\ gets = <<>>
    /\ stages = <<>>
    /\ order = <<>>
    /\ responded = FALSE
    /\ response = NoResponse
    /\ seen = NoSeen
    /\ csess = <<>>
    /\ handlers = [h \in 1..MaxHandlers |-> NoHandler]

Init ==
    /\ text = <<>>
    /\ lines = <<>>
    /\ cpc = "unused"
    /\ relines = <<>>
    /\ Idle

\* the state a request handler starts in: the session opened, the
\* coroutines created and not yet started
Begin(ep, U, ts) ==
    /\ reqNo < MaxRequests
    /\ reqNo = 0 \/ responded
    /\ reqNo' = reqNo + 1
    /\ endpoint' = ep
    /\ urls' = U
    /\ session' = "open"
    /\ tasks' = ts
    /\ pc' = [i \in 1..Len(ts) |-> "pending"]
    /\ upstream' = [i \in 1..Len(ts) |-> NoUpstream]
    /\ fetched' = [i \in 1..Len(ts) |-> NoFetch]
    /\ result' = [i \in 1..Len(ts) |-> NoOutcome]
    /\ gets' = [i \in 1..Len(ts) |-> 0]
    /\ stages' = [i \in 1..Len(ts) |-> <<"pending">>]
    /\ order' = <<>>
    /\ responded' = FALSE
    /\ response' = NoResponse
    /\ UNCHANGED <<cvars, hvars, kvars>>

\* POST /scrape/single: scrape_single up to its await
SingleRequest ==
    \E u \in UrlObjs : Begin("single", <<u>>, <<Str(u)>>)

\* POST /scrape/batch: scrape_batch up to its await of gather
BatchRequest ==
    \E n \in 0..MaxUrls : \E U \in [1..n -> UrlObjs] : Begin("batch", U, task_urls(U))

\* a coroutine starts: scrape_url calls fetch_html, which issues its GET
StartTask(i) ==
    /\ pc[i] = "pending"
    /\ session = "open"
    /\ pc' = [pc EXCEPT ![i] = "fetching"]
    /\ gets' = [gets EXCEPT ![i] = @ + 1]
    /\ stages' = [stages EXCEPT ![i] = Append(@, "fetching")]
    /\ UNCHANGED <<reqNo, endpoint, urls, session, tasks, upstream, fetched, result,
                   order, responded, response>>
    /\ UNCHANGED <<cvars, hvars, kvars>>

\* the GET of a coroutine completes or fails: fetch_html returns the html,
\* or raises and scrape_url's handler turns that into the coroutine's
\* exception
FetchReturns(i) ==
    /\ pc[i] = "fetching"
    /\ \E up \in Upstream :
          LET f == fetch_html(tasks[i], up)
          IN  /\ upstream' = [upstream EXCEPT ![i] = up]
              /\ fetched' = [fetched EXCEPT ![i] = f]
              /\ IF f.raised
                 THEN /\ result' = [result EXCEPT ![i] = scrape_url(tasks[i], f)]
                      /\ pc' = [pc EXCEPT ![i] = "failed"]
                      /\ stages' = [stages EXCEPT ![i] = Append(@, "fetch_failed")]
                      /\ order' = Append(order, i)
                 ELSE /\ pc' = [pc EXCEPT ![i] = "fetched"]
                      /\ stages' = [stages EXCEPT ![i] = Append(@, "fetched")]
                      /\ UNCHANGED <<result, order>>
    /\ UNCHANGED <<reqNo, endpoint, urls, session, tasks, gets, responded, response>>
    /\ UNCHANGED <<cvars, hvars, kvars>>

\* the rest of scrape_url on the fetched html: parse and extract, then
\* return the record or raise
Extract(i) ==
    /\ pc[i] = "fetched"
    /\ LET r == scrape_url(tasks[i], fetched[i])
       IN  /\ result' = [result EXCEPT ![i] = r]
           /\ pc' = [pc EXCEPT ![i] = IF r.raised THEN "failed" ELSE "done"]
           /\ stages' = [stages EXCEPT ![i] =
                           @ \o <<"extracting">>
                             \o (IF r.raised THEN <<"extract_failed">>
                                 ELSE <<"extracted", "done">>)]
    /\ order' = Append(order, i)
    /\ UNCHANGED <<reqNo, endpoint, urls, session, tasks, upstream, fetched, gets,
                   responded, response>>
    /\ UNCHANGED <<cvars, hvars, kvars>>

\* scrape_single after its await: the record is returned or the exception
\* propagates to http_exception_handler; the session is closed on the way
SingleReturn ==
    /\ endpoint = "single"
    /\ ~responded
    /\ pc[1] \in Terminal
    /\ response' = respond(result[1])
    /\ responded' = TRUE
    /\ session' = "closed"
    /\ UNCHANGED <<reqNo, endpoint, urls, tasks, pc, upstream, fetched, result, gets,
                   stages, order>>
    /\ UNCHANGED <<cvars, hvars, kvars>>

\* scrape_batch after gather: the output list is built and returned, the
\* session is closed on the way
BatchReturn ==
    /\ endpoint = "batch"
    /\ ~responded
    /\ gather_done(pc)
    /\ LET g == gather(result, order)
       IN  response' = respond(IF g.raised THEN g
                               ELSE Return(batch_output(urls, g.value)))
    /\ responded' = TRUE
    /\ session' = "closed"
    /\ UNCHANGED <<reqNo, endpoint, urls, tasks, pc, upstream, fetched, result, gets,
                   stages, order>>
    /\ UNCHANGED <<cvars, hvars, kvars>>

Next ==
    \/ SingleRequest
    \/ BatchRequest
    \/ \E i \in 1..Len(pc) : StartTask(i)
    \/ \E i \in 1..Len(pc) : FetchReturns(i)
    \/ \E i \in 1..Len(pc) : Extract(i)
    \/ SingleReturn
    \/ BatchReturn

Spec == Init /\ [][Next]_vars

\* ------------------------------------------------------------------------
\* Independent requests compared: a client notes, for one url of an
\* answered request, the url, what the upstream did for it and what the
\* response holds for it, and later requests are compared with the note.
\* ------------------------------------------------------------------------
\* POST /scrape/batch with at most MaxPairUrls urls
PairBatchRequest ==
    \E n \in 0..MaxPairUrls : \E U \in [1..n -> UrlObjs] : Begin("batch", U, task_urls(U))

\* the client notes url i of the answered request
Remember(i) ==
    /\ responded
    /\ reqNo < MaxRequests
    /\ seen' = [req |-> reqNo, endpoint |-> endpoint, n |-> Len(urls), url |-> tasks[i],
                up |-> upstream[i], status |-> response.status,
                out |-> IF endpoint = "batch" /\ response.status = 200
                        THEN response.body[i] ELSE response.body]
    /\ UNCHANGED <<cvars, rvars, kvars>>

NextHistory ==
    \/ SingleRequest
    \/ PairBatchRequest
    \/ \E i \in 1..Len(pc) : StartTask(i)
    \/ \E i \in 1..Len(pc) : FetchReturns(i)
    \/ \E i \in 1..Len(pc) : Extract(i)
    \/ SingleReturn
    \/ BatchReturn
    \/ \E i \in 1..Len(pc) : Remember(i)

SpecHistory == Init /\ [][NextHistory]_vars

\* ------------------------------------------------------------------------
\* Requests handled side by side.  Of each coroutine only its fetch is
\* kept: pending, fetching (GET in flight on the session it was given),
\* done or failed.  A handler holds the session it created (sess), and per
\* coroutine the session its GET was issued on (on) and whether that
\* session was already closed then (late).
\* ------------------------------------------------------------------------
\* a variant of new_session with one module-level session for all requests
shared_session(ss) == 1

\* aiohttp.ClientSession() in a handler: a new session object
new_session(ss) == Len(ss) + 1

\* a request arrives: the handler enters `async with` and creates its
\* coroutines, each given the handler's session
Arrive(h) ==
    /\ handlers[h].state = "none"
    /\ \E ep \in {"single", "batch"} :
       \E n \in 0..MaxConcUrls :
          /\ ep = "single" => n = 1
          /\ LET id == new_session(csess)
             IN  /\ csess' = IF id > Len(csess) THEN Append(csess, "open") ELSE csess
                 /\ handlers' = [handlers EXCEPT ![h] =
                        [state |-> "running", ep |-> ep, sess |-> id,
                         tpc |-> [i \in 1..n |-> "pending"],
                         on |-> [i \in 1..n |-> 0],
                         late |-> [i \in 1..n |-> FALSE]]]
    /\ UNCHANGED <<cvars, rvars, hvars>>

\* coroutine i of handler h calls session.get on the session it was given;
\* on a closed session the call raises and the coroutine fails
Get(h, i) ==
    /\ handlers[h].state = "running"
    /\ handlers[h].tpc[i] = "pending"
    /\ LET sid == handlers[h].sess
       IN  handlers' = [handlers EXCEPT
               ![h].on[i] = sid,
               ![h].late[i] = (csess[sid] # "open"),
               ![h].tpc[i] = IF csess[sid] = "open" THEN "fetching" ELSE "failed"]
    /\ UNCHANGED csess
    /\ UNCHANGED <<cvars, rvars, hvars>>

\* the GET of coroutine i ends and the coroutine returns or raises
Finish(h, i) ==
    /\ handlers[h].state = "running"
    /\ handlers[h].tpc[i] = "fetching"
    /\ \E end \in {"done", "failed"} : handlers' = [handlers EXCEPT ![h].tpc[i] = end]
    /\ UNCHANGED csess
    /\ UNCHANGED <<cvars, rvars, hvars>>

\* the await of the handler is over (scrape_url, or gather of all the
\* coroutines): it leaves `async with`, which closes its session, by
\* return or by the exception of scrape_single
Leave(h) ==
    /\ handlers[h].state = "running"
    /\ gather_done(handlers[h].tpc)
    /\ handlers' = [handlers EXCEPT ![h].state = "returned"]
    /\ csess' = [csess EXCEPT ![handlers[h].sess] = "closed"]
    /\ UNCHANGED <<cvars, rvars, hvars>>

ConcProgress ==
    \/ \E h \in 1..MaxHandlers : \E i \in 1..Len(handlers[h].tpc) : Get(h, i)
    \/ \E h \in 1..MaxHandlers : \E i \in 1..Len(handlers[h].tpc) : Finish(h, i)
    \/ \E h \in 1..MaxHandlers : Leave(h)

NextConc ==
    \/ \E h \in 1..MaxHandlers : Arrive(h)
    \/ \E h \in 1..MaxHandlers : \E i \in 1..Len(handlers[h].tpc) : Get(h, i)
    \/ \E h \in 1..MaxHandlers : \E i \in 1..Len(handlers[h].tpc) : Finish(h, i)
    \/ \E h \in 1..MaxHandlers : Leave(h)

\* the event loop runs every coroutine that can run and every GET ends (at
\* the latest by its timeout); no request is bound to arrive
SpecConc == Init /\ [][NextConc]_vars /\ WF_vars(ConcProgress)

\* ------------------------------------------------------------------------
\* clean_text on its own
\* ------------------------------------------------------------------------
InitClean ==
    /\ text \in CleanInputs
    /\ lines = <<>>
    /\ cpc = "input"
    /\ relines = <<>>
    /\ Idle

\* one call of clean_text on the chosen input
CallCleanText ==
    /\ cpc = "input"
    /\ lines' = clean_text(text)
    /\ cpc' = "returned"
    /\ UNCHANGED <<text, relines>>
    /\ UNCHANGED <<rvars, hvars, kvars>>

\* a second call of clean_text, on "\n".join(lines) of the first call
CallAgain ==
    /\ cpc = "returned"
    /\ relines' = clean_text(join(lines, <<NL>>))
    /\ cpc' = "reapplied"
    /\ UNCHANGED <<text, lines>>
    /\ UNCHANGED <<rvars, hvars, kvars>>

NextClean == CallCleanText \/ CallAgain

SpecClean == InitClean /\ [][NextClean]_vars

\* ------------------------------------------------------------------------
\* Properties
\* ------------------------------------------------------------------------
BatchDone == endpoint = "batch" /\ responded

\* C1: the list scrape_batch returns has exactly one element per input url,
\* and element i is the outcome of the coroutine of urls[i] and carries
\* str(urls[i]) as its url, in whatever order the coroutines finished.
C1_OrderPreserved ==
    BatchDone =>
        /\ response.status = 200
        /\ Len(response.body) = Len(urls)
        /\ \A i \in 1..Len(urls) :
              /\ response.body[i].url = Str(urls[i])
              /\ IF result[i].raised
                 THEN /\ DOMAIN response.body[i] = {"url", "error"}
                      /\ response.body[i].error = str_exc(result[i].exc)
                 ELSE response.body[i] = result[i].value

\* a batch of two different urls whose second coroutine finished first, the
\* first failing and the second succeeding
C1_Witness ==
    /\ BatchDone
    /\ Len(urls) = 2
    /\ urls[1] # urls[2]
    /\ order = <<2, 1>>
    /\ result[1].raised
    /\ ~result[2].raised

\* C2: slot i of a batch is a function of urls[i] and of what the upstream
\* did for the GET of coroutine i alone (the pipeline run on its own for
\* that url and that upstream behaviour), whatever the other urls did and
\* in whatever order they finished; a url answered 404 has a failure slot
\* and a url answered 200 with a readable, parseable body a success slot.
C2_SlotIndependent ==
    BatchDone =>
        /\ response.status = 200
        /\ Len(response.body) = Len(urls)
        /\ \A i \in 1..Len(urls) :
              LET u == Str(urls[i])
                  alone == scrape_url(u, fetch_html(u, upstream[i]))
              IN  /\ response.body[i] =
                        (IF alone.raised
                         THEN [url |-> u, error |-> str_exc(alone.exc)]
                         ELSE alone.value)
                  /\ (upstream[i].kind = "response" /\ upstream[i].status = 404)
                        => DOMAIN response.body[i] = {"url", "error"}
                  /\ (upstream[i].kind = "response" /\ upstream[i].status = 200
                        /\ ~Docs[upstream[i].doc].rejected)
                        => DOMAIN response.body[i] = {"url", "metadata", "content"}

\* a batch in which the first url was answered 404 and its sibling 200, the
\* sibling finishing after the failure
C2_Witness ==
    /\ BatchDone
    /\ Len(urls) = 2
    /\ urls[1] # urls[2]
    /\ upstream[1].kind = "response" /\ upstream[1].status = 404
    /\ upstream[2].kind = "response" /\ upstream[2].status = 200
    /\ order = <<1, 2>>
    /\ DOMAIN response.body[1] = {"url", "error"}
    /\ DOMAIN response.body[2] = {"url", "metadata", "content"}

\* C3: whatever the coroutines of a batch raised, scrape_batch returns a
\* list with status 200; no exception of a coroutine becomes the response.
C3_BatchNeverFails ==
    BatchDone =>
        /\ response.status = 200
        /\ DOMAIN response.body = 1..Len(urls)

\* a batch all of whose urls failed, one in the fetch and one in the parse
C3_Witness ==
    /\ BatchDone
    /\ Len(urls) = 2
    /\ upstream[1].kind = "timeout"
    /\ upstream[2].kind = "response" /\ upstream[2].status = 200
    /\ result[1].raised
    /\ result[2].raised
    /\ response.status = 200

\* C4: every slot of a returned batch is either a success record (url,
\* metadata, content) or a failure record (url, error), there is one slot
\* per input url, and a slot is a failure record exactly when the
\* coroutine of that url raised.
C4_OneOutcomePerSlot ==
    (BatchDone /\ response.status = 200) =>
        /\ Len(response.body) = Len(urls)
        /\ \A i \in 1..Len(response.body) :
              /\ \/ DOMAIN response.body[i] = {"url", "metadata", "content"}
                 \/ DOMAIN response.body[i] = {"url", "error"}
              /\ ("error" \in DOMAIN response.body[i]) <=> (pc[i] = "failed")
              /\ (pc[i] = "failed") <=> result[i].raised

\* a batch with a success slot and a failure slot
C4_Witness ==
    /\ BatchDone
    /\ Len(urls) = 2
    /\ pc[1] = "done"
    /\ pc[2] = "failed"
    /\ DOMAIN response.body[1] = {"url", "metadata", "content"}
    /\ DOMAIN response.body[2] = {"url", "error"}

\* C5: on the single-url endpoint an error response has the status of its
\* failure class (504 for a timeout, the upstream's status for a non-200
\* answer, 500 for other transport faults and parse errors) and a body
\* with the single field error.
C5_StatusReflectsFailure ==
    (endpoint = "single" /\ responded /\ result[1].raised) =>
        /\ DOMAIN response.body = {"error"}
        /\ upstream[1].kind = "timeout" => response.status = 504
        /\ (upstream[1].kind = "response" /\ upstream[1].status # 200)
              => response.status = upstream[1].status
        /\ upstream[1].kind \in {"fault", "bodyfault"} => response.status = 500
        /\ (upstream[1].kind = "response" /\ upstream[1].status = 200)
              => response.status = 500

\* C6: the content of every success record is clean_text applied to the
\* extracted content: the coroutine went through a normalizing stage
\* before done.
C6_ContentNormalized ==
    \A i \in 1..Len(pc) :
        pc[i] = "done" =>
            /\ \E k \in 1..Len(stages[i]) : stages[i][k] = "normalizing"
            /\ result[i].value.content =
                  clean_text(extract(tasks[i], Docs[fetched[i].value].nodes).content)

\* C7: a coroutine whose fetch failed ends in fetch_failed with the
\* exception fetch_html raised, never enters extracting and is not
\* reported as a parse error; a parse error is reported only for html that
\* was fetched and whose extraction raised.
C7_ParseErrorOnlyAfterFetch ==
    \A i \in 1..Len(pc) :
        LET parse_error == /\ result[i].raised
                           /\ result[i].exc.detail # <<>>
                           /\ result[i].exc.detail[1] = "Error parsing HTML for "
        IN  pc[i] \in Terminal =>
               /\ fetched[i].raised =>
                     /\ stages[i][Len(stages[i])] = "fetch_failed"
                     /\ \A k \in 1..Len(stages[i]) : stages[i][k] # "extracting"
                     /\ ~parse_error
                     /\ result[i].exc = fetched[i].exc
               /\ parse_error =>
                     /\ ~fetched[i].raised
                     /\ stages[i][Len(stages[i])] = "extract_failed"

\* C8: fetch_html returns the body exactly when the response status is 200,
\* and for any other status raises an error with the url in its detail and
\* the observed status as its status_code.
C8_FetchStatus ==
    \A i \in 1..Len(pc) :
        upstream[i].kind = "response" =>
            /\ ~fetched[i].raised <=> upstream[i].status = 200
            /\ upstream[i].status # 200 =>
                  /\ fetched[i].exc.kind = "HTTPException"
                  /\ \E k \in 1..Len(fetched[i].exc.detail) :
                        SubSeq(fetched[i].exc.detail, k, k + Len(tasks[i]) - 1) = tasks[i]
                  /\ fetched[i].exc.status_code = upstream[i].status

\* C9: clean_text returns, in their original order, the trimmed lines of
\* its argument (split at line breaks) that are not blank and contain none
\* of "Sign In", "Sign Out", "All Articles", "Home" anywhere;
\* "A\n\n\nB\nSign In\nC" gives ["A", "B", "C"].
C9_CleanTextLines ==
    cpc = "returned" =>
        LET ends == {i \in 1..Len(text) : text[i] = NL} \cup {Len(text) + 1}
            starts == {0} \cup {i \in 1..Len(text) : text[i] = NL}
            Line(b) == SubSeq(text, b + 1, MinOf({e \in ends : e > b}) - 1)
            Noise(l) ==
                \/ contains(l, kwSignIn)
                \/ contains(l, kwSignOut)
                \/ contains(l, kwAllArticles)
                \/ contains(l, kwHome)
            kept == {b \in starts : strip(Line(b)) # <<>> /\ ~Noise(Line(b))}
            Nth(k) == CHOOSE b \in kept : Cardinality({c \in kept : c <= b}) = k
        IN  /\ Len(lines) = Cardinality(kept)
            /\ \A k \in 1..Len(lines) : lines[k] = strip(Line(Nth(k)))
            /\ text = SpecExample => lines = <<<<"A">>, <<"B">>, <<"C">>>>

\* clean_text has returned on "A\n\n\nB\nSign In\nC": a run of line
\* breaks, a noise line and three surviving lines
C9_Witness ==
    /\ cpc = "returned"
    /\ text = SpecExample
    /\ lines = <<<<"A">>, <<"B">>, <<"C">>>>

\* C10: a request creates exactly one coroutine per input slot, each bound
\* to its own slot's url (duplicates included), each coroutine issues at
\* most one GET and exactly one by the time the response is sent, and no
\* stage follows a failed stage.
C10_OneAttemptPerSlot ==
    /\ Len(tasks) = Len(urls)
    /\ Len(gets) = Len(urls)
    /\ \A i \in 1..Len(urls) :
          /\ tasks[i] = Str(urls[i])
          /\ gets[i] = (IF pc[i] = "pending" THEN 0 ELSE 1)
          /\ responded => gets[i] = 1
          /\ \A k \in 1..(Len(stages[i]) - 1) :
                stages[i][k] \notin {"fetch_failed", "extract_failed"}
          /\ Cardinality({k \in 1..Len(stages[i]) : stages[i][k] = "fetching"}) = gets[i]
          /\ pc[i] = "failed" <=>
                stages[i][Len(stages[i])] \in {"fetch_failed", "extract_failed"}

\* a batch with the same url twice, both fetched, one failed and one done
C10_Witness ==
    /\ BatchDone
    /\ Len(urls) = 2
    /\ urls[1] = urls[2]
    /\ gets = <<1, 1>>
    /\ pc[1] = "failed"
    /\ pc[2] = "done"
    /\ Len(response.body) = 2

\* C11: a url of a batch whose upstream never answers ends, once the
\* timeout has fired, in a failure classified as a timeout (status 504,
\* "Timeout while fetching <url>", not a parse error), and the batch then
\* returns with that failure in the url's slot.
C11_TimeoutClassified ==
    \A i \in 1..Len(pc) :
        (endpoint = "batch" /\ upstream[i].kind = "timeout") =>
            /\ pc[i] = "failed"
            /\ result[i].raised
            /\ result[i].exc.status_code = 504
            /\ result[i].exc.detail = <<"Timeout while fetching ">> \o tasks[i]
            /\ BatchDone =>
                  response.body[i] = [url |-> tasks[i], error |-> str_exc(result[i].exc)]

\* C12: all coroutines of a batch exist before any of them runs, and the
\* batch has returned only if every coroutine is in a terminal state: none
\* is pending, fetching or fetched and not yet extracted.
C12_ReturnsAfterAll ==
    endpoint = "batch" =>
        /\ Len(pc) = Len(urls)
        /\ (\E i \in 1..Len(pc) : pc[i] # "pending") => Len(tasks) = Len(urls)
        /\ responded =>
              \A i \in 1..Len(urls) :
                  /\ pc[i] \notin {"pending", "fetching", "fetched"}
                  /\ pc[i] \in Terminal
                  /\ Len(order) = Len(urls)

\* a returned batch of two urls whose first coroutine was the last to
\* finish, after going through extraction
C12_Witness ==
    /\ BatchDone
    /\ Len(urls) = 2
    /\ order = <<2, 1>>
    /\ pc[1] = "done"
    /\ pc[2] \in Terminal

\* C13: the content of a record is the text of the first <main> of the
\* document if there is one, else of the first <article> if there is one,
\* else of <body> if there is one, else the empty string; an element that
\* is present wins even when it is empty.
C13_ContentSelection ==
    \A i \in 1..Len(pc) :
        pc[i] = "done" =>
            LET nodes == Docs[fetched[i].value].nodes
                ds == descendants(nodes)
                At(t) == {k \in 1..Len(ds) : ds[k].tag = t}
                content == result[i].value.content
            IN  /\ At("main") # {} => content = get_text(ds[MinOf(At("main"))], <<NL>>)
                /\ (At("main") = {} /\ At("article") # {})
                      => content = get_text(ds[MinOf(At("article"))], <<NL>>)
                /\ (At("main") = {} /\ At("article") = {} /\ At("body") # {})
                      => content = get_text(ds[MinOf(At("body"))], <<NL>>)
                /\ (At("main") = {} /\ At("article") = {} /\ At("body") = {})
                      => content = <<>>
                /\ nodes = DocEmptyMain => content = <<>>
                /\ nodes = DocArticleMain => content = <<"M">>
                /\ nodes = DocBodyOnly => content = <<"x", NL, "t", NL, "y", NL, "z">>

\* a url whose document has an empty <main> before an <article> with text
\* has been scraped, and its content is empty
C13_Witness ==
    \E i \in 1..Len(pc) :
        /\ pc[i] = "done"
        /\ Docs[fetched[i].value].nodes = DocEmptyMain
        /\ result[i].value.content = <<>>

C15_SingleMatchesBatch ==
    /\ (responded /\ endpoint = "batch" /\ Len(urls) = 1 /\ seen.endpoint = "single"
          /\ tasks[1] = seen.url /\ upstream[1] = seen.up) =>
          /\ response.status = 200
          /\ Len(response.body) = 1
          /\ seen.status = 200 <=> DOMAIN response.body[1] = {"url", "metadata", "content"}
          /\ seen.status = 200 => response.body = <<seen.out>>
          /\ seen.status # 200 <=> DOMAIN response.body[1] = {"url", "error"}
          /\ seen.status # 200 =>
                /\ DOMAIN seen.out = {"error"}
                /\ response.body[1].url = seen.url
    /\ (responded /\ endpoint = "single" /\ seen.endpoint = "batch" /\ seen.n = 1
          /\ tasks[1] = seen.url /\ upstream[1] = seen.up) =>
          /\ seen.status = 200
          /\ response.status = 200 <=> DOMAIN seen.out = {"url", "metadata", "content"}
          /\ response.status = 200 => response.body = seen.out
          /\ response.status # 200 <=> DOMAIN seen.out = {"url", "error"}
          /\ response.status # 200 =>
                /\ DOMAIN response.body = {"error"}
                /\ seen.out.url = tasks[1]

\* a batch of one url has returned a failure slot for a url that an
\* earlier single request, served the same 404, answered with an error
C15_Witness ==
    /\ responded
    /\ endpoint = "batch"
    /\ Len(urls) = 1
    /\ seen.endpoint = "single"
    /\ seen.req < reqNo
    /\ tasks[1] = seen.url
    /\ upstream[1] = seen.up
    /\ seen.up.kind = "response"
    /\ seen.up.status = 404
    /\ seen.status # 200
    /\ DOMAIN response.body[1] = {"url", "error"}

\* C16: every request has one session of its own, created by its handler;
\* each of its GETs is issued on that session while it is open, no GET is
\* in flight on a closed session, a session is closed only when all
\* coroutines of its request have ended, and every opened session is
\* eventually closed, also when coroutines fail.
C16_SessionPerRequest ==
    /\ [](\A h \in 1..MaxHandlers :
            handlers[h].state # "none" =>
               /\ handlers[h].sess \in 1..Len(csess)
               /\ \A g \in 1..MaxHandlers :
                     (g # h /\ handlers[g].state # "none")
                        => handlers[g].sess # handlers[h].sess
               /\ \A i \in 1..Len(handlers[h].tpc) :
                     /\ handlers[h].on[i] \in {0, handlers[h].sess}
                     /\ ~handlers[h].late[i]
                     /\ handlers[h].tpc[i] = "fetching" => csess[handlers[h].on[i]] = "open"
                     /\ csess[handlers[h].sess] = "closed"
                           => handlers[h].tpc[i] \in {"done", "failed"}
               /\ csess[handlers[h].sess] = "closed" <=> handlers[h].state = "returned")
    /\ [](Len(csess) = Cardinality({h \in 1..MaxHandlers : handlers[h].state # "none"}))
    /\ \A s \in 1..MaxHandlers :
          (Len(csess) >= s /\ csess[s] = "open") ~> (Len(csess) >= s /\ csess[s] = "closed")

\* one handler has returned and closed its session after a coroutine of
\* it failed, while a GET of another handler is in flight on that
\* handler's own open session
C16_Witness ==
    \E h, g \in 1..MaxHandlers :
        /\ handlers[h].state = "returned"
        /\ csess[handlers[h].sess] = "closed"
        /\ \E i \in 1..Len(handlers[h].tpc) : handlers[h].tpc[i] = "failed"
        /\ handlers[g].state = "running"
        /\ \E i \in 1..Len(handlers[g].tpc) :
              /\ handlers[g].tpc[i] = "fetching"
              /\ handlers[g].on[i] = handlers[g].sess
        /\ csess[handlers[g].sess] = "open"

\* C17: a fetched document that the parser accepts is extracted without
\* failure whatever it lacks: no <title> gives the title "", no description
\* or keywords <meta> gives "", and headers holds the text of the <h1> and
\* <h2> elements, one entry each, in the order in which they stand in the
\* document (empty when there is none).  <main><h1>T</h1><p>Body</p></main>
\* gives title "", headers ["T"] and a content that contains "Body".
C17_ExtractionDefaults ==
    \A i \in 1..Len(pc) :
        (/\ pc[i] \in Terminal
         /\ ~fetched[i].raised
         /\ fetched[i].value \in DocIds
         /\ ~Docs[fetched[i].value].rejected) =>
            /\ pc[i] = "done"
            /\ ~result[i].raised
            /\ LET nodes == Docs[fetched[i].value].nodes
                   ds == descendants(nodes)
                   At(t) == {k \in 1..Len(ds) : ds[k].tag = t}
                   Named(n) == {k \in At("meta") : ds[k].name = n}
                   H == At("h1") \cup At("h2")
                   md == result[i].value.metadata
               IN  /\ At("title") = {} => md.title = <<>>
                   /\ Named("description") = {} => md.meta_description = <<>>
                   /\ Named("keywords") = {} => md.meta_keywords = <<>>
                   /\ Len(md.headers) = Cardinality(H)
                   /\ \A k \in H :
                         md.headers[Cardinality({m \in H : m <= k})] = get_text(ds[k], <<>>)
                   /\ nodes = DocMainOnly =>
                         /\ md.title = <<>>
                         /\ md.meta_description = <<>>
                         /\ md.meta_keywords = <<>>
                         /\ md.headers = << <<"T">> >>
                         /\ contains(result[i].value.content, tBody)
                   /\ nodes = DocBare => md.headers = <<>>
                   /\ nodes = DocBodyOnly => md.headers = << <<"x">>, <<"y">>, <<"z">> >>
                   /\ nodes = DocArticle => md.headers = << <<"S", "u">>, <<"U">> >>

\* in one batch, the document <main><h1>T</h1><p>Body</p></main> has been
\* extracted with an empty title and the header T, and a document with an
\* <h1> between two <h2> has been extracted with its three headers
C17_Witness ==
    \E i, j \in 1..Len(pc) :
        /\ pc[i] = "done"
        /\ Docs[fetched[i].value].nodes = DocMainOnly
        /\ result[i].value.metadata.title = <<>>
        /\ result[i].value.metadata.headers = << <<"T">> >>
        /\ pc[j] = "done"
        /\ Docs[fetched[j].value].nodes = DocBodyOnly
        /\ Len(result[j].value.metadata.headers) = 3

\* C18: clean_text applied to its own output, the lines joined by one line
\* break, returns that output again; every line it returns is trimmed, not
\* empty, holds no line break and none of the blacklisted substrings.
C18_CleanTextIdempotent ==
    /\ cpc = "reapplied" => relines = lines
    /\ cpc \in {"returned", "reapplied"} =>
          \A k \in 1..Len(lines) :
              /\ lines[k] # <<>>
              /\ strip(lines[k]) = lines[k]
              /\ \A c \in 1..Len(lines[k]) : lines[k][c] # NL
              /\ \A bad \in blacklist_keywords : ~contains(lines[k], bad)

\* clean_text has been applied again to the two lines it returned for a
\* text with blank lines, a padded line and a noise line
C18_Witness ==
    /\ cpc = "reapplied"
    /\ Len(lines) >= 2
    /\ relines = lines
    /\ \E i \in 1..Len(text) : text[i] = NL /\ i < Len(text) /\ text[i + 1] = NL
    /\ \E bad \in blacklist_keywords : contains(text, bad)

====
